---- MODULE Spec2Model ----
(***************************************************************************)
(* Model of the LIFX integration script (integration/lifx_script.py): the  *)
(* HTTP client wrapper, the argument normalizers, the eleven command       *)
(* handlers and the dispatcher main().                                     *)
(*                                                                         *)
(* Python str values are TLA+ strings; character-level functions (lower,   *)
(* strip, int(), float(), f-strings) are computed character by character   *)
(* with Len, SubSeq and \o.  Python float values are integers counting     *)
(* thousandths (0.7 is 700).  Python None is the value None below.         *)
(***************************************************************************)
EXTENDS Integers, Sequences, FiniteSets, TLC

VARIABLES
    pc,        \* position of the invocation: "routing", "waiting", "terminal"
               \* (and "fmt", "fmt_done" for the formatter on its own)
    cmd,       \* demisto.command()
    args,      \* demisto.args(): a mapping from argument name to string
    handler,   \* name of the function main() dispatched to, "" when none
    requests,  \* the session.request calls issued so far, in order
    replies,   \* what session.request came back with, per request
    results,   \* the demisto.results calls made so far, in order
    ts,        \* input of _fmt_ts_relative when applied on its own
    now,       \* the clock: [sec, micro, tz]
    out        \* what _fmt_ts_relative returned, None before it ran

vars == <<pc, cmd, args, handler, requests, replies, results, ts, now, out>>

----------------------------------------------------------------------------
(* Python values *)

\* Python None where a str is expected; no argument, header or message of
\* the model is this string.
None == "<None>"

\* Python True / False / None as returned by _bool_arg.
PyTrue == "True"
PyFalse == "False"

\* Truthiness of an optional str: None and "" are falsy.
Truthy(v) == v # None /\ v # ""

\* a or b, on optional strs.
Or(a, b) == IF Truthy(a) THEN a ELSE b

\* dict.get(k) on a mapping of strs.
Get(d, k) == IF k \in DOMAIN d THEN d[k] ELSE None

----------------------------------------------------------------------------
(* str methods *)

Char(s, i) == SubSeq(s, i, i)

UpperAlpha == "ABCDEFGHIJKLMNOPQRSTUVWXYZ"
LowerAlpha == "abcdefghijklmnopqrstuvwxyz"
Digits == "0123456789"

IndexIn(alphabet, c) ==
    IF \E i \in 1..Len(alphabet) : Char(alphabet, i) = c
    THEN CHOOSE i \in 1..Len(alphabet) : Char(alphabet, i) = c
    ELSE 0

LowerChar(c) ==
    IF IndexIn(UpperAlpha, c) > 0 THEN Char(LowerAlpha, IndexIn(UpperAlpha, c)) ELSE c

RECURSIVE Lower(_)
Lower(s) == IF s = "" THEN "" ELSE LowerChar(Char(s, 1)) \o Lower(Tail(s))

IsSpace(c) == c \in {" ", "\t", "\n", "\r"}

RECURSIVE LStrip(_)
LStrip(s) == IF s # "" /\ IsSpace(Char(s, 1)) THEN LStrip(Tail(s)) ELSE s

RECURSIVE RStrip(_)
RStrip(s) ==
    IF s # "" /\ IsSpace(Char(s, Len(s))) THEN RStrip(SubSeq(s, 1, Len(s) - 1)) ELSE s

Strip(s) == LStrip(RStrip(s))

\* s.rstrip("/")
RECURSIVE RStripSlash(_)
RStripSlash(s) ==
    IF s # "" /\ Char(s, Len(s)) = "/" THEN RStripSlash(SubSeq(s, 1, Len(s) - 1)) ELSE s

\* sub in s
Contains(s, sub) ==
    \E i \in 1..(Len(s) - Len(sub) + 1) : SubSeq(s, i, i + Len(sub) - 1) = sub

IsDigit(c) == IndexIn(Digits, c) > 0

AllDigits(s) == \A i \in 1..Len(s) : IsDigit(Char(s, i))

\* Value of a string of decimal digits.
RECURSIVE DigitsValue(_)
DigitsValue(s) ==
    IF s = "" THEN 0
    ELSE 10 * DigitsValue(SubSeq(s, 1, Len(s) - 1)) + (IndexIn(Digits, Char(s, Len(s))) - 1)

\* str(n) / f"{n}" of an int.
RECURSIVE DecNat(_)
DecNat(n) == IF n < 10 THEN Char(Digits, n + 1) ELSE DecNat(n \div 10) \o Char(Digits, (n % 10) + 1)

DecStr(n) == IF n < 0 THEN "-" \o DecNat(0 - n) ELSE DecNat(n)

\* f"{n:02d}" and f"{n:04d}" as strftime pads its fields.
Pad2(n) == IF n < 10 THEN "0" \o DecNat(n) ELSE DecNat(n)
Pad4(n) ==
    IF n < 10 THEN "000" \o DecNat(n)
    ELSE IF n < 100 THEN "00" \o DecNat(n)
    ELSE IF n < 1000 THEN "0" \o DecNat(n)
    ELSE DecNat(n)

----------------------------------------------------------------------------
(* int() and float() *)

\* Sign and magnitude part of a stripped numeric literal.
Unsigned(s) == IF s # "" /\ Char(s, 1) \in {"+", "-"} THEN Tail(s) ELSE s
Negative(s) == s # "" /\ Char(s, 1) = "-"

\* int(s) of a str: surrounding whitespace and one sign are accepted, the
\* rest must be decimal digits.  ok = FALSE is ValueError.  digits is kept
\* so that a literal of any length can be classified without arithmetic.
IntOfStr(s) ==
    LET t == Strip(s)
        u == Unsigned(t)
    IN  IF u # "" /\ AllDigits(u)
        THEN [ok |-> TRUE, neg |-> Negative(t), digits |-> u]
        ELSE [ok |-> FALSE, neg |-> FALSE, digits |-> ""]

\* Index of the decimal point of s, 0 if it has none.
PointAt(s) == IndexIn(s, ".")

\* Thousandths carried by the fraction digits f (at most three are used by
\* the inputs of this model).
FracMilli(f) ==
    IF Len(f) = 0 THEN 0
    ELSE IF Len(f) = 1 THEN 100 * DigitsValue(f)
    ELSE IF Len(f) = 2 THEN 10 * DigitsValue(f)
    ELSE DigitsValue(SubSeq(f, 1, 3))

\* float(s) of a str: surrounding whitespace and one sign are accepted, then
\* digits with at most one decimal point and at least one digit.  ok = FALSE
\* is ValueError.  val is the value in thousandths.
FloatOfStr(s) ==
    LET t == Strip(s)
        u == Unsigned(t)
        p == PointAt(u)
        ip == IF p = 0 THEN u ELSE SubSeq(u, 1, p - 1)
        fp == IF p = 0 THEN "" ELSE SubSeq(u, p + 1, Len(u))
        good == AllDigits(ip) /\ AllDigits(fp) /\ Len(ip) + Len(fp) > 0
        mag == 1000 * DigitsValue(ip) + FracMilli(fp)
    IN  IF good
        THEN [ok |-> TRUE, val |-> IF Negative(t) THEN 0 - mag ELSE mag]
        ELSE [ok |-> FALSE, val |-> 0]

\* The message of the ValueError float(s) raises.
FloatErrorMessage(s) == "could not convert string to float: '" \o s \o "'"

\* float(n) of an int.
FloatOfInt(n) == 1000 * n

----------------------------------------------------------------------------
(* Argument normalizers *)

\* _bool_arg(val)
_bool_arg(val) ==
    IF val = None THEN None
    ELSE LET v == Strip(Lower(val))
         IN  IF v \in {"true", "yes", "y", "1"} THEN PyTrue
             ELSE IF v \in {"false", "no", "n", "0"} THEN PyFalse
             ELSE None

\* The mapping dict of _normalize_severity.
SeverityMapping ==
    [x \in {"1", "low", "2", "medium", "moderate", "3", "high", "4", "critical", "crit"} |->
        IF x \in {"1", "low"} THEN "low"
        ELSE IF x \in {"2", "medium", "moderate"} THEN "medium"
        ELSE IF x \in {"3", "high"} THEN "high"
        ELSE "critical"]

\* _normalize_severity(val)
_normalize_severity(val) ==
    IF val = None THEN None
    ELSE Get(SeverityMapping, Strip(Lower(val)))

\* _severity_defaults(sev): (color, cycles)
_severity_defaults(sev) ==
    IF sev = "low" THEN <<"green", 3>>
    ELSE IF sev = "medium" THEN <<"yellow", 5>>
    ELSE IF sev = "high" THEN <<"orange", 7>>
    ELSE IF sev = "critical" THEN <<"red", 10>>
    ELSE <<"red", 5>>

----------------------------------------------------------------------------
(* _fmt_ts_relative *)

\* The values _fmt_ts_relative receives: a response header (str), or a JSON
\* value of a scene record (null, string, integer, real).
PyNone == [t |-> "NoneType"]
PyStr(s) == [t |-> "str", s |-> s]
PyInt(n) == [t |-> "int", n |-> n]
PyFloat(milli) == [t |-> "float", m |-> milli]

\* Truncation toward zero of a value in thousandths: int(x) of a float.
TruncMilli(m) == IF m >= 0 THEN m \div 1000 ELSE 0 - ((0 - m) \div 1000)

RECURSIVE StripZeros(_)
StripZeros(d) == IF Len(d) > 1 /\ Char(d, 1) = "0" THEN StripZeros(Tail(d)) ELSE d

\* a <= b for two digit strings of the same length.
RECURSIVE LexLE(_, _)
LexLE(a, b) ==
    IF a = "" THEN TRUE
    ELSE IF IndexIn(Digits, Char(a, 1)) < IndexIn(Digits, Char(b, 1)) THEN TRUE
    ELSE IF IndexIn(Digits, Char(a, 1)) > IndexIn(Digits, Char(b, 1)) THEN FALSE
    ELSE LexLE(Tail(a), Tail(b))

\* Whether datetime.fromtimestamp accepts the integer with this sign and
\* these digits: the years 1 to 9999.  Outside it raises OverflowError,
\* ValueError or OSError.
MaxEpochDigits == "253402300799"
MinEpochDigits == "62135596800"
FromTimestampOK(neg, d) ==
    LET n == StripZeros(d)
        lim == IF neg THEN MinEpochDigits ELSE MaxEpochDigits
    IN  Len(n) < Len(lim) \/ (Len(n) = Len(lim) /\ LexLE(n, lim))

\* int(ts): [ok, neg, digits].  ok = FALSE is ValueError or TypeError.
IntOf(tsv) ==
    IF tsv.t = "str" THEN IntOfStr(tsv.s)
    ELSE IF tsv.t = "int"
        THEN [ok |-> TRUE, neg |-> tsv.n < 0,
              digits |-> DecNat(IF tsv.n < 0 THEN 0 - tsv.n ELSE tsv.n)]
    ELSE IF tsv.t = "float"
        THEN [ok |-> TRUE, neg |-> TruncMilli(tsv.m) < 0,
              digits |-> DecNat(IF tsv.m < 0 THEN 0 - TruncMilli(tsv.m) ELSE TruncMilli(tsv.m))]
    ELSE [ok |-> FALSE, neg |-> FALSE, digits |-> ""]

IntValue(p) == IF p.neg THEN 0 - DigitsValue(p.digits) ELSE DigitsValue(p.digits)

\* The fraction digits of repr(x) of a float with m thousandths.
RECURSIVE TrimZeros(_)
TrimZeros(d) == IF Len(d) > 1 /\ Char(d, Len(d)) = "0" THEN TrimZeros(SubSeq(d, 1, Len(d) - 1)) ELSE d
FracDigits(m) ==
    TrimZeros(Char(Digits, (m \div 100) + 1) \o Char(Digits, ((m \div 10) % 10) + 1)
              \o Char(Digits, (m % 10) + 1))

\* str(ts)
StrOf(tsv) ==
    IF tsv.t = "str" THEN tsv.s
    ELSE IF tsv.t = "int" THEN DecStr(tsv.n)
    ELSE IF tsv.t = "float"
        THEN LET a == IF tsv.m < 0 THEN 0 - tsv.m ELSE tsv.m
             IN  (IF tsv.m < 0 THEN "-" ELSE "") \o DecNat(a \div 1000) \o "." \o FracDigits(a % 1000)
    ELSE "None"

\* Calendar date of a day number counted from 1970-01-01 (proleptic
\* Gregorian calendar, as datetime uses).
CivilFromDays(days) ==
    LET z == days + 719468
        era == z \div 146097
        doe == z - era * 146097
        yoe == (doe - doe \div 1460 + doe \div 36524 - doe \div 146096) \div 365
        doy == doe - (365 * yoe + yoe \div 4 - yoe \div 100)
        mp == (5 * doy + 2) \div 153
        d == doy - (153 * mp + 2) \div 5 + 1
        m == IF mp < 10 THEN mp + 3 ELSE mp - 9
        y == yoe + era * 400 + (IF m <= 2 THEN 1 ELSE 0)
    IN  [year |-> y, month |-> m, day |-> d]

\* datetime.fromtimestamp(ts_int).strftime("%Y-%m-%d %H:%M:%S") where local
\* time is UTC + tz seconds.
AbsStr(ts_int, tz) ==
    LET loc == ts_int + tz
        c == CivilFromDays(loc \div 86400)
        sod == loc % 86400
    IN  Pad4(c.year) \o "-" \o Pad2(c.month) \o "-" \o Pad2(c.day) \o " "
        \o Pad2(sod \div 3600) \o ":" \o Pad2((sod % 3600) \div 60) \o ":" \o Pad2(sod % 60)

\* int((now - dt).total_seconds()): now carries microseconds, dt does not,
\* and int() truncates toward zero.
DeltaSeconds(ts_int, clock) ==
    IF clock.sec - ts_int < 0 /\ clock.micro > 0
    THEN clock.sec - ts_int + 1
    ELSE clock.sec - ts_int

Plural(n) == IF n # 1 THEN "s" ELSE ""

\* The chain of _fmt_ts_relative with > where it has >=.
RelOf_strict(seconds) ==
    LET days == seconds \div 86400
        years == days \div 365
        months == days \div 30
        hours == seconds \div 3600
        minutes == seconds \div 60
    IN  IF days > 365 THEN DecStr(years) \o " year" \o Plural(years)
        ELSE IF days > 30 THEN DecStr(months) \o " month" \o Plural(months)
        ELSE IF days > 1 THEN DecStr(days) \o " day" \o Plural(days)
        ELSE IF hours > 1 THEN DecStr(hours) \o " hour" \o Plural(hours)
        ELSE IF minutes > 1 THEN DecStr(minutes) \o " minute" \o Plural(minutes)
        ELSE DecStr(seconds) \o " second" \o Plural(seconds)

\* The if / elif chain of _fmt_ts_relative choosing rel.
RelOf(seconds) ==
    LET days == seconds \div 86400
        years == days \div 365
        months == days \div 30
        hours == seconds \div 3600
        minutes == seconds \div 60
    IN  IF days >= 365 THEN DecStr(years) \o " year" \o Plural(years)
        ELSE IF days >= 30 THEN DecStr(months) \o " month" \o Plural(months)
        ELSE IF days >= 1 THEN DecStr(days) \o " day" \o Plural(days)
        ELSE IF hours >= 1 THEN DecStr(hours) \o " hour" \o Plural(hours)
        ELSE IF minutes >= 1 THEN DecStr(minutes) \o " minute" \o Plural(minutes)
        ELSE DecStr(seconds) \o " second" \o Plural(seconds)

\* _fmt_ts_relative(ts) read at the clock value clock.
_fmt_ts_relative(tsv, clock) ==
    IF tsv.t = "NoneType" \/ (tsv.t = "str" /\ tsv.s = "") THEN "-"
    ELSE LET p == IntOf(tsv)
         IN  IF ~p.ok THEN StrOf(tsv)
             ELSE IF ~FromTimestampOK(p.neg, p.digits) THEN StrOf(tsv)
             ELSE LET ts_int == IntValue(p)
                      abs_str == AbsStr(ts_int, clock.tz)
                      seconds == DeltaSeconds(ts_int, clock)
                  IN  IF seconds < 0 THEN abs_str
                      ELSE abs_str \o " (" \o RelOf(seconds) \o " ago)"

----------------------------------------------------------------------------
(* Result entries *)

ENTRY_TYPE_NOTE == 1
ENTRY_TYPE_ERROR == 4

\* JSON values as the handlers inspect them: shape is "list", "dict" or
\* "null"; "text" is a Python str (a body that is not JSON).  items are the
\* elements of a list: "dict" for an object, "str" for anything without .get.
JsonList(items) == [shape |-> "list", items |-> items, text |-> ""]
JsonDict == [shape |-> "dict", items |-> <<>>, text |-> ""]
JsonNull == [shape |-> "null", items |-> <<>>, text |-> ""]
Text(t) == [shape |-> "text", items |-> <<>>, text |-> t]

\* make_note_entry(human_readable, contents, context); context is given by
\* its key, the value under the key is contents.  HumanReadable keeps the
\* heading of the rendering.
make_note_entry(human_readable, contents, context) ==
    [Type |-> ENTRY_TYPE_NOTE,
     ContentsFormat |-> IF contents.shape \in {"dict", "list"} THEN "json" ELSE "text",
     Contents |-> IF contents.shape # "null" THEN contents ELSE Text(human_readable),
     ReadableContentsFormat |-> "markdown",
     HumanReadable |-> human_readable,
     EntryContext |-> context]

\* make_error_entry(message)
make_error_entry(message) ==
    [Type |-> ENTRY_TYPE_ERROR,
     ContentsFormat |-> "text",
     Contents |-> Text(message),
     ReadableContentsFormat |-> "text",
     HumanReadable |-> message,
     EntryContext |-> ""]

\* demisto.results("ok"): a bare str, which carries no entry Type.
OkResult ==
    [Type |-> 0, ContentsFormat |-> "text", Contents |-> Text("ok"),
     ReadableContentsFormat |-> "text", HumanReadable |-> "ok", EntryContext |-> ""]

----------------------------------------------------------------------------
(* What a piece of handler code does: emits a result and returns, raises,  *)
(* or calls the client.                                                    *)

Emit(entry) == [k |-> "emit", entry |-> entry]
Raise(msg) == [k |-> "raise", msg |-> msg]
Send(req) == [k |-> "send", req |-> req]
Return(value) == [k |-> "return", value |-> value]

----------------------------------------------------------------------------
(* LifxClient *)

\* demisto.params()
Params == [url |-> "https://api.lifx.com/v1/", api_token |-> "c0ffee", insecure |-> FALSE]

\* LifxClient.__init__
LifxClient(base_url, api_token, verify) ==
    [base_url |-> RStripSlash(Or(base_url, "")),
     api_token |-> api_token,
     verify |-> verify,
     headers |-> [Authorization |-> "Bearer " \o api_token,
                  ContentType |-> "application/json"]]

\* The arguments of the session.request call of _request.
Request(client, method, path, json_data, raw_response) ==
    [method |-> method, url |-> client.base_url \o path, json |-> json_data,
     verify |-> client.verify, headers |-> client.headers, raw_response |-> raw_response]

\* What the remote side does with a request: the transport raises, or a
\* response arrives.
TransportError(msg) == [k |-> "exc", msg |-> msg, status |-> 0, body |-> JsonNull, headers |-> <<>>]
Response(status, body, headers) ==
    [k |-> "resp", msg |-> "", status |-> status, body |-> body, headers |-> headers]

\* resp.text of a body; a JSON body's text is abbreviated to its shape.
BodyText(body) == IF body.shape = "text" THEN body.text ELSE "<" \o body.shape \o ">"

\* _request after session.request came back with outcome o.
_request(req, o) ==
    IF o.k = "exc" THEN Raise(o.msg)
    ELSE IF req.raw_response THEN Return(o)
    ELSE IF o.status >= 400
        THEN Raise("LIFX API error " \o DecStr(o.status) \o ": " \o BodyText(o.body))
    ELSE Return(o.body)

\* get_with_headers after _request: (data, headers, status_code)
get_with_headers(req, o) ==
    LET r == _request(req, o)
    IN  IF r.k = "raise" THEN r
        ELSE Return([data |-> r.value.body, headers |-> r.value.headers,
                     status |-> r.value.status])

list_lights(client, selector) == Request(client, "GET", "/lights/" \o selector, <<>>, FALSE)
set_state(client, selector, payload) ==
    Request(client, "PUT", "/lights/" \o selector \o "/state", payload, FALSE)
toggle_power(client, selector, payload) ==
    Request(client, "POST", "/lights/" \o selector \o "/toggle", payload, FALSE)
breathe_effect(client, selector, payload) ==
    Request(client, "POST", "/lights/" \o selector \o "/effects/breathe", payload, FALSE)
pulse_effect(client, selector, payload) ==
    Request(client, "POST", "/lights/" \o selector \o "/effects/pulse", payload, FALSE)
list_scenes(client) == Request(client, "GET", "/scenes", <<>>, FALSE)
activate_scene(client, scene_uuid, payload) ==
    Request(client, "PUT", "/scenes/scene_id:" \o scene_uuid \o "/activate", payload, TRUE)
get_with_headers_request(client, path) == Request(client, "GET", path, <<>>, TRUE)

----------------------------------------------------------------------------
(* Payload building *)

\* payload[k] = v
Put(payload, k, v) == (k :> v) @@ payload

\* if args.get(f): payload[f] = args.get(f), for each f of fields in order.
RECURSIVE CopyTruthy(_, _, _)
CopyTruthy(a, fields, payload) ==
    IF fields = <<>> THEN payload
    ELSE CopyTruthy(a, Tail(fields),
                    IF Truthy(Get(a, Head(fields)))
                    THEN Put(payload, Head(fields), Get(a, Head(fields)))
                    ELSE payload)

\* for f in fields: if <present>: payload[f] = float(args[f]).  strict is
\* the test "is not None"; otherwise the test is truthiness.  The first
\* ValueError leaves the loop: [ok, msg, payload].
RECURSIVE FloatFields(_, _, _, _)
FloatFields(a, fields, strict, payload) ==
    IF fields = <<>> THEN [ok |-> TRUE, msg |-> "", payload |-> payload]
    ELSE LET v == Get(a, Head(fields))
             present == IF strict THEN v # None ELSE Truthy(v)
         IN  IF ~present THEN FloatFields(a, Tail(fields), strict, payload)
             ELSE IF ~FloatOfStr(v).ok
                 THEN [ok |-> FALSE, msg |-> FloatErrorMessage(v), payload |-> payload]
             ELSE FloatFields(a, Tail(fields), strict,
                              Put(payload, Head(fields), FloatOfStr(v).val))

\* x = _bool_arg(args.get(f)); if x is not None: payload[f] = x
PutBool(a, f, payload) ==
    IF _bool_arg(Get(a, f)) # None THEN Put(payload, f, _bool_arg(Get(a, f)) = PyTrue)
    ELSE payload

\* The exception .get raises on a value that is no dict.
NoGetMessage(kind) ==
    "'" \o (IF kind = "null" THEN "NoneType" ELSE "str") \o "' object has no attribute 'get'"

\* if not isinstance(x, list): x = [x]
AsList(value) ==
    IF value.shape = "list" THEN value.items
    ELSE IF value.shape = "dict" THEN <<"dict">>
    ELSE IF value.shape = "null" THEN <<"null">>
    ELSE <<"str">>

\* First element of a list that is no dict, 0 if all are.
FirstNonDict(items) ==
    IF \E i \in 1..Len(items) : items[i] # "dict"
    THEN CHOOSE i \in 1..Len(items) : items[i] # "dict" /\ \A j \in 1..(i - 1) : items[j] = "dict"
    ELSE 0

----------------------------------------------------------------------------
(* Command handlers.  Each handler is given in two parts: X_call is the    *)
(* code up to and including the call of the client method, X_done the code *)
(* after session.request came back with outcome o.                         *)

Selector(a) == Or(Get(a, "selector"), "all")

\* json.dumps / markdown headings the handlers put first in their rendering.
Heading(title, selector) == "## " \o title \o " (selector=\"" \o selector \o "\")"

\* lifx_list_lights_command
lifx_list_lights_call(client, a) == Send(list_lights(client, Selector(a)))

lifx_list_lights_done(client, a, req, o) ==
    LET r == _request(req, o)
        lights == AsList(r.value)
    IN  IF r.k = "raise" THEN r
        ELSE IF FirstNonDict(lights) # 0 THEN Raise(NoGetMessage(lights[FirstNonDict(lights)]))
        ELSE Emit(make_note_entry(Heading("LIFX Lights", Selector(a)),
                                  JsonList(lights), "LIFX.Light"))

\* lifx_set_state_command
\* lifx_set_state_command copying fast as given instead of through _bool_arg.
lifx_set_state_call_raw_fast(client, a) ==
    LET p1 == CopyTruthy(a, <<"power", "color">>, <<>>)
        p2 == FloatFields(a, <<"brightness", "duration", "infrared">>, TRUE, p1)
        payload == CopyTruthy(a, <<"fast">>, p2.payload)
    IN  IF ~p2.ok THEN Raise(p2.msg)
        ELSE IF DOMAIN payload = {} THEN Emit(make_error_entry("No state fields were provided."))
        ELSE Send(set_state(client, Selector(a), payload))

lifx_set_state_call(client, a) ==
    LET p1 == CopyTruthy(a, <<"power", "color">>, <<>>)
        p2 == FloatFields(a, <<"brightness", "duration", "infrared">>, TRUE, p1)
        payload == PutBool(a, "fast", p2.payload)
    IN  IF ~p2.ok THEN Raise(p2.msg)
        ELSE IF DOMAIN payload = {} THEN Emit(make_error_entry("No state fields were provided."))
        ELSE Send(set_state(client, Selector(a), payload))

\* lifx_set_state_command rendering the result through .get, which a result
\* that is no dict does not have.
lifx_set_state_done_get(client, a, req, o) ==
    LET r == _request(req, o)
    IN  IF r.k = "raise" THEN r
        ELSE IF r.value.shape # "dict" THEN Raise(NoGetMessage(r.value.shape))
        ELSE Emit(make_note_entry(Heading("LIFX Set State", Selector(a)), r.value, "LIFX.State"))

lifx_set_state_done(client, a, req, o) ==
    LET r == _request(req, o)
    IN  IF r.k = "raise" THEN r
        ELSE Emit(make_note_entry(Heading("LIFX Set State", Selector(a)), r.value, "LIFX.State"))

\* lifx_toggle_power_command
lifx_toggle_power_call(client, a) ==
    LET p == FloatFields(a, <<"duration">>, FALSE, <<>>)
    IN  IF ~p.ok THEN Raise(p.msg)
        ELSE Send(toggle_power(client, Selector(a), p.payload))

lifx_toggle_power_done(client, a, req, o) ==
    LET r == _request(req, o)
    IN  IF r.k = "raise" THEN r
        ELSE Emit(make_note_entry(Heading("LIFX Toggle Power", Selector(a)), r.value, "LIFX.Toggle"))

\* The payload of the two effect commands after the color check; fields are
\* the numeric fields of the command.
EffectPayload(a, fields) ==
    LET p1 == CopyTruthy(a, <<"from_color">>, Put(<<>>, "color", Get(a, "color")))
        p2 == FloatFields(a, fields, FALSE, p1)
    IN  [ok |-> p2.ok, msg |-> p2.msg,
         payload |-> PutBool(a, "power_on", PutBool(a, "persist", p2.payload))]

\* lifx_breathe_effect_command
\* lifx_breathe_effect_command testing "color is None" instead of falsiness.
lifx_breathe_effect_call_is_none(client, a) ==
    LET p == EffectPayload(a, <<"period", "cycles", "peak">>)
    IN  IF Get(a, "color") = None
        THEN Emit(make_error_entry("color argument is required for lifx-breathe-effect"))
        ELSE IF ~p.ok THEN Raise(p.msg)
        ELSE Send(breathe_effect(client, Selector(a), p.payload))

lifx_breathe_effect_call(client, a) ==
    LET p == EffectPayload(a, <<"period", "cycles", "peak">>)
    IN  IF ~Truthy(Get(a, "color"))
        THEN Emit(make_error_entry("color argument is required for lifx-breathe-effect"))
        ELSE IF ~p.ok THEN Raise(p.msg)
        ELSE Send(breathe_effect(client, Selector(a), p.payload))

lifx_breathe_effect_done(client, a, req, o) ==
    LET r == _request(req, o)
    IN  IF r.k = "raise" THEN r
        ELSE Emit(make_note_entry(Heading("LIFX Breathe Effect", Selector(a)), r.value, "LIFX.Breathe"))

\* lifx_pulse_effect_command
lifx_pulse_effect_call(client, a) ==
    LET p == EffectPayload(a, <<"period", "cycles">>)
    IN  IF ~Truthy(Get(a, "color"))
        THEN Emit(make_error_entry("color argument is required for lifx-pulse-effect"))
        ELSE IF ~p.ok THEN Raise(p.msg)
        ELSE Send(pulse_effect(client, Selector(a), p.payload))

lifx_pulse_effect_done(client, a, req, o) ==
    LET r == _request(req, o)
    IN  IF r.k = "raise" THEN r
        ELSE Emit(make_note_entry(Heading("LIFX Pulse Effect", Selector(a)), r.value, "LIFX.Pulse"))

\* lifx_list_scenes_command
lifx_list_scenes_call(client, a) == Send(list_scenes(client))

lifx_list_scenes_done(client, a, req, o) ==
    LET r == _request(req, o)
        scenes == AsList(r.value)
    IN  IF r.k = "raise" THEN r
        ELSE IF FirstNonDict(scenes) # 0 THEN Raise(NoGetMessage(scenes[FirstNonDict(scenes)]))
        ELSE Emit(make_note_entry("## LIFX Scenes", JsonList(scenes), "LIFX.Scene"))

\* lifx_activate_scene_command
lifx_activate_scene_call(client, a) ==
    LET uuid == Get(a, "scene_uuid")
        p == FloatFields(a, <<"duration">>, FALSE, <<>>)
    IN  IF ~Truthy(uuid) THEN Emit(make_error_entry("scene_uuid argument is required"))
        ELSE IF ~p.ok THEN Raise(p.msg)
        ELSE Send(activate_scene(client, uuid, PutBool(a, "fast", p.payload)))

lifx_activate_scene_done(client, a, req, o) ==
    LET r == _request(req, o)
    IN  IF r.k = "raise" THEN r
        ELSE Emit(make_note_entry("## LIFX Activate Scene",
                                  [shape |-> "dict", status |-> r.value.status],
                                  "LIFX.SceneActivation"))

\* lifx_alert_flash_command
\* lifx_alert_flash_command taking the severity defaults only when no color
\* is given.
lifx_alert_flash_call_color_first(client, a) ==
    LET severity == _normalize_severity(Get(a, "severity"))
        defaults == IF Truthy(severity) /\ ~Truthy(Get(a, "color"))
                    THEN _severity_defaults(severity) ELSE <<"red", 5>>
        color == Or(Get(a, "color"), defaults[1])
        cyclesOk == Truthy(Get(a, "cycles")) => FloatOfStr(Get(a, "cycles")).ok
        cycles == IF Truthy(Get(a, "cycles")) THEN FloatOfStr(Get(a, "cycles")).val
                  ELSE FloatOfInt(defaults[2])
        periodOk == Truthy(Get(a, "period")) => FloatOfStr(Get(a, "period")).ok
        period == IF Truthy(Get(a, "period")) THEN FloatOfStr(Get(a, "period")).val ELSE 700
        persist == _bool_arg(Get(a, "persist"))
        power_on == _bool_arg(Get(a, "power_on"))
        payload == [color |-> color, cycles |-> cycles, period |-> period,
                    persist |-> IF persist = None THEN FALSE ELSE persist = PyTrue,
                    power_on |-> IF power_on = None THEN TRUE ELSE power_on = PyTrue]
    IN  IF ~cyclesOk THEN Raise(FloatErrorMessage(Get(a, "cycles")))
        ELSE IF ~periodOk THEN Raise(FloatErrorMessage(Get(a, "period")))
        ELSE Send(pulse_effect(client, Selector(a), payload))

lifx_alert_flash_call(client, a) ==
    LET severity == _normalize_severity(Get(a, "severity"))
        defaults == IF Truthy(severity) THEN _severity_defaults(severity) ELSE <<"red", 5>>
        color == Or(Get(a, "color"), defaults[1])
        cyclesOk == Truthy(Get(a, "cycles")) => FloatOfStr(Get(a, "cycles")).ok
        cycles == IF Truthy(Get(a, "cycles")) THEN FloatOfStr(Get(a, "cycles")).val
                  ELSE FloatOfInt(defaults[2])
        periodOk == Truthy(Get(a, "period")) => FloatOfStr(Get(a, "period")).ok
        period == IF Truthy(Get(a, "period")) THEN FloatOfStr(Get(a, "period")).val ELSE 700
        persist == _bool_arg(Get(a, "persist"))
        power_on == _bool_arg(Get(a, "power_on"))
        payload == [color |-> color, cycles |-> cycles, period |-> period,
                    persist |-> IF persist = None THEN FALSE ELSE persist = PyTrue,
                    power_on |-> IF power_on = None THEN TRUE ELSE power_on = PyTrue]
    IN  IF ~cyclesOk THEN Raise(FloatErrorMessage(Get(a, "cycles")))
        ELSE IF ~periodOk THEN Raise(FloatErrorMessage(Get(a, "period")))
        ELSE Send(pulse_effect(client, Selector(a), payload))

lifx_alert_flash_done(client, a, req, o) ==
    LET r == _request(req, o)
    IN  IF r.k = "raise" THEN r
        ELSE Emit(make_note_entry("## LIFX Alert Flash", r.value, "LIFX.AlertFlash"))

\* lifx_test_connection_command (LatencyMS, a wall-clock measurement, is
\* left out of the diagnostic record)
lifx_test_connection_call(client, a) == Send(list_lights(client, Selector(a)))

\* lifx_test_connection_command calling list_lights again after a failure.
lifx_test_connection_done_retries(client, a, req, o) ==
    LET r == _request(req, o)
        lights == AsList(r.value)
        diag == [BaseURL |-> client.base_url, Selector |-> Selector(a),
                 VerifySSL |-> client.verify, Status |-> "success",
                 LightsReturned |-> Len(lights), Error |-> ""]
    IN  IF r.k = "raise" THEN Send(list_lights(client, Selector(a)))
        ELSE Emit(make_note_entry("## LIFX Connection Test",
                                  [shape |-> "dict", Info |-> diag, Lights |-> lights],
                                  "LIFX.ConnectionTest"))

\* lifx_test_connection_command without its try / except.
lifx_test_connection_done_propagates(client, a, req, o) ==
    LET r == _request(req, o)
        lights == AsList(r.value)
        diag == [BaseURL |-> client.base_url, Selector |-> Selector(a),
                 VerifySSL |-> client.verify, Status |-> "success",
                 LightsReturned |-> Len(lights), Error |-> ""]
    IN  IF r.k = "raise" THEN r
        ELSE Emit(make_note_entry("## LIFX Connection Test",
                                  [shape |-> "dict", Info |-> diag, Lights |-> lights],
                                  "LIFX.ConnectionTest"))

lifx_test_connection_done(client, a, req, o) ==
    LET r == _request(req, o)
        lights == IF r.k = "raise" THEN <<>> ELSE AsList(r.value)
        diag == [BaseURL |-> client.base_url, Selector |-> Selector(a),
                 VerifySSL |-> client.verify,
                 Status |-> IF r.k = "raise" THEN "failed" ELSE "success",
                 LightsReturned |-> Len(lights),
                 Error |-> IF r.k = "raise" THEN r.msg ELSE ""]
    IN  Emit(make_note_entry("## LIFX Connection Test",
                             [shape |-> "dict", Info |-> diag, Lights |-> lights],
                             "LIFX.ConnectionTest"))

\* lifx_health_check_command (LatencyMS left out as above); clock is the
\* time _fmt_ts_relative reads.
lifx_health_check_call(client, a) == Send(get_with_headers_request(client, "/lights/all"))

lifx_health_check_done(client, a, req, o, clock) ==
    LET r == get_with_headers(req, o)
        headers == r.value.headers
        status == r.value.status
        remaining == Or(Or(Get(headers, "X-RateLimit-Remaining"),
                           Get(headers, "X-RateLimit-Remaining-Short")), "-")
        limit == Or(Or(Get(headers, "X-RateLimit-Limit"),
                       Get(headers, "X-RateLimit-Limit-Short")), "-")
        reset_raw == Or(Get(headers, "X-RateLimit-Reset"), "-")
        reset == IF reset_raw \notin {"", "-"} THEN _fmt_ts_relative(PyStr(reset_raw), clock)
                 ELSE "-"
        ok == 200 <= status /\ status < 400
    IN  IF r.k = "raise" THEN r
        ELSE Emit(make_note_entry("## LIFX Health Check",
                                  [shape |-> "dict", Status |-> status, RateLimit |-> limit,
                                   RateRemaining |-> remaining, RateReset |-> reset, OK |-> ok],
                                  "LIFX.HealthCheck"))

\* test_module
test_module_call(client) == Send(list_lights(client, "all"))

test_module_done(client, req, o) ==
    LET r == _request(req, o)
    IN  IF r.k = "raise" THEN r ELSE Emit(OkResult)

----------------------------------------------------------------------------
(* main *)

\* The command names main() compares cmd with, and the function each
\* branch calls.
CommandTable ==
    {"test-module", "lifx-list-lights", "lifx-set-state", "lifx-toggle-power",
     "lifx-breathe-effect", "lifx-pulse-effect", "lifx-list-scenes",
     "lifx-activate-scene", "lifx-alert-flash", "lifx-test-connection",
     "lifx-health-check"}

HandlerName(c) ==
    CASE c = "test-module" -> "test_module"
      [] c = "lifx-list-lights" -> "lifx_list_lights_command"
      [] c = "lifx-set-state" -> "lifx_set_state_command"
      [] c = "lifx-toggle-power" -> "lifx_toggle_power_command"
      [] c = "lifx-breathe-effect" -> "lifx_breathe_effect_command"
      [] c = "lifx-pulse-effect" -> "lifx_pulse_effect_command"
      [] c = "lifx-list-scenes" -> "lifx_list_scenes_command"
      [] c = "lifx-activate-scene" -> "lifx_activate_scene_command"
      [] c = "lifx-alert-flash" -> "lifx_alert_flash_command"
      [] c = "lifx-test-connection" -> "lifx_test_connection_command"
      [] c = "lifx-health-check" -> "lifx_health_check_command"
      [] OTHER -> ""

\* client = LifxClient(base_url=base, api_token=token, verify=not insecure)
Client == LifxClient(Params.url, Params.api_token, ~Params.insecure)

\* The if / elif chain of main() up to the handler's client call.
HandlerCall(c, a) ==
    CASE c = "test-module" -> test_module_call(Client)
      [] c = "lifx-list-lights" -> lifx_list_lights_call(Client, a)
      [] c = "lifx-set-state" -> lifx_set_state_call(Client, a)
      [] c = "lifx-toggle-power" -> lifx_toggle_power_call(Client, a)
      [] c = "lifx-breathe-effect" -> lifx_breathe_effect_call(Client, a)
      [] c = "lifx-pulse-effect" -> lifx_pulse_effect_call(Client, a)
      [] c = "lifx-list-scenes" -> lifx_list_scenes_call(Client, a)
      [] c = "lifx-activate-scene" -> lifx_activate_scene_call(Client, a)
      [] c = "lifx-alert-flash" -> lifx_alert_flash_call(Client, a)
      [] c = "lifx-test-connection" -> lifx_test_connection_call(Client, a)
      [] c = "lifx-health-check" -> lifx_health_check_call(Client, a)

\* The rest of the handler once its request req came back with outcome o.
HandlerDone(c, a, req, o, clock) ==
    CASE c = "test-module" -> test_module_done(Client, req, o)
      [] c = "lifx-list-lights" -> lifx_list_lights_done(Client, a, req, o)
      [] c = "lifx-set-state" -> lifx_set_state_done(Client, a, req, o)
      [] c = "lifx-toggle-power" -> lifx_toggle_power_done(Client, a, req, o)
      [] c = "lifx-breathe-effect" -> lifx_breathe_effect_done(Client, a, req, o)
      [] c = "lifx-pulse-effect" -> lifx_pulse_effect_done(Client, a, req, o)
      [] c = "lifx-list-scenes" -> lifx_list_scenes_done(Client, a, req, o)
      [] c = "lifx-activate-scene" -> lifx_activate_scene_done(Client, a, req, o)
      [] c = "lifx-alert-flash" -> lifx_alert_flash_done(Client, a, req, o)
      [] c = "lifx-test-connection" -> lifx_test_connection_done(Client, a, req, o)
      [] c = "lifx-health-check" -> lifx_health_check_done(Client, a, req, o, clock)

\* The else branch of main() with a message that leaves the command out.
NotImplementedEntry_anonymous(c) == make_error_entry("Command is not implemented.")

\* The entry of the else branch of main().
NotImplementedEntry(c) == make_error_entry("Command '" \o c \o "' is not implemented.")

\* The entry of the except branch of main().
FailedEntry(c, e) == make_error_entry("Failed to execute '" \o c \o "'. Error: " \o e)

\* Continue with an except branch that drops the exception.
Continue_swallow(r) ==
    CASE r.k = "emit" ->
            /\ results' = Append(results, r.entry)
            /\ pc' = "terminal"
            /\ UNCHANGED requests
      [] r.k = "raise" ->
            /\ pc' = "terminal"
            /\ UNCHANGED <<requests, results>>
      [] r.k = "send" ->
            /\ requests' = Append(requests, r.req)
            /\ pc' = "waiting"
            /\ UNCHANGED results

\* What main() does with a step r of the handler it dispatched to: the
\* handler emitted and returned, raised into the except branch, or is
\* blocked in session.request.
Continue(r) ==
    CASE r.k = "emit" ->
            /\ results' = Append(results, r.entry)
            /\ pc' = "terminal"
            /\ UNCHANGED requests
      [] r.k = "raise" ->
            /\ results' = Append(results, FailedEntry(cmd, r.msg))
            /\ pc' = "terminal"
            /\ UNCHANGED requests
      [] r.k = "send" ->
            /\ requests' = Append(requests, r.req)
            /\ pc' = "waiting"
            /\ UNCHANGED results

\* main(): cmd matches no branch.
NotImplemented ==
    /\ pc = "routing"
    /\ cmd \notin CommandTable
    /\ results' = Append(results, NotImplementedEntry(cmd))
    /\ pc' = "terminal"
    /\ UNCHANGED <<cmd, args, handler, requests, replies, ts, now, out>>

\* main(): cmd matches a branch; the handler runs up to its client call.
Dispatch ==
    /\ pc = "routing"
    /\ cmd \in CommandTable
    /\ handler' = HandlerName(cmd)
    /\ Continue(HandlerCall(cmd, args))
    /\ UNCHANGED <<cmd, args, replies, ts, now, out>>

\* session.request comes back with outcome o and the handler runs on.
Reply(o) ==
    /\ pc = "waiting"
    /\ replies' = Append(replies, o)
    /\ Continue(HandlerDone(cmd, args, requests[Len(requests)], o, now))
    /\ UNCHANGED <<cmd, args, handler, ts, now, out>>

----------------------------------------------------------------------------
(* Inputs *)

MaxItems == 2

\* A mapping holding the pairs <<key, value>> whose value is not None.
RECURSIVE Mk(_)
Mk(pairs) ==
    IF pairs = <<>> THEN <<>>
    ELSE IF Head(pairs)[2] = None THEN Mk(Tail(pairs))
    ELSE (Head(pairs)[1] :> Head(pairs)[2]) @@ Mk(Tail(pairs))

SelectorValues == {None, "label:Desk"}
TextValues == {None, "", "blue"}
NumberValues == {None, "", "1.5", "abc"}
BoolValues == {None, "Yes", " 0 ", "maybe"}
SeverityValues == {None, "critical", " LOW", "2", "High", "bogus"}
UnknownCommands == {"lifx-unknown", "", "LIFX-LIST-LIGHTS"}

ArgsOf(c) ==
    CASE c = "lifx-list-lights" ->
            {Mk(<<<<"selector", s>>, <<"verbose", v>>>>) :
                s \in SelectorValues \cup {""}, v \in BoolValues}
      [] c = "lifx-set-state" ->
            {Mk(<<<<"selector", s>>, <<"power", p>>, <<"color", c1>>, <<"brightness", b>>,
                  <<"duration", d>>, <<"infrared", i>>, <<"fast", f>>, <<"bogus", x>>>>) :
                s \in SelectorValues, p \in {None, "", "on"}, c1 \in TextValues,
                b \in NumberValues, d \in NumberValues, i \in {None, "0"},
                f \in BoolValues, x \in {None, "1"}}
      [] c = "lifx-toggle-power" ->
            {Mk(<<<<"selector", s>>, <<"duration", d>>>>) :
                s \in SelectorValues, d \in NumberValues}
      [] c = "lifx-breathe-effect" ->
            {Mk(<<<<"selector", s>>, <<"color", c1>>, <<"from_color", c2>>, <<"period", p>>,
                  <<"cycles", n>>, <<"peak", k>>, <<"persist", b1>>, <<"power_on", b2>>>>) :
                s \in SelectorValues, c1 \in TextValues, c2 \in {None, "red"},
                p \in NumberValues, n \in NumberValues, k \in {None, "0.5"},
                b1 \in {None, "true"}, b2 \in BoolValues}
      [] c = "lifx-pulse-effect" ->
            {Mk(<<<<"selector", s>>, <<"color", c1>>, <<"from_color", c2>>, <<"period", p>>,
                  <<"cycles", n>>, <<"persist", b1>>, <<"power_on", b2>>>>) :
                s \in SelectorValues, c1 \in TextValues, c2 \in {None, "red"},
                p \in NumberValues, n \in NumberValues,
                b1 \in BoolValues, b2 \in {None, "false"}}
      [] c = "lifx-list-scenes" -> {Mk(<<<<"verbose", v>>>>) : v \in BoolValues}
      [] c = "lifx-activate-scene" ->
            {Mk(<<<<"scene_uuid", u>>, <<"duration", d>>, <<"fast", f>>>>) :
                u \in {None, "", "9a7c"}, d \in NumberValues, f \in BoolValues}
      [] c = "lifx-alert-flash" ->
            {Mk(<<<<"selector", s>>, <<"severity", v>>, <<"color", c1>>, <<"cycles", n>>,
                  <<"period", p>>, <<"persist", b1>>, <<"power_on", b2>>>>) :
                s \in SelectorValues, v \in SeverityValues, c1 \in TextValues,
                n \in NumberValues, p \in {None, "2", "x"},
                b1 \in {None, "true", "maybe"}, b2 \in {None, "no", "maybe"}}
      [] c = "lifx-test-connection" -> {Mk(<<<<"selector", s>>>>) : s \in SelectorValues \cup {""}}
      [] OTHER -> {Mk(<<<<"selector", s>>>>) : s \in SelectorValues}

\* Lists of at most n elements of S.
SeqsUpTo(S, n) == UNION {[1..k -> S] : k \in 0..n}

Statuses == {200, 399, 400, 503}
Bodies ==
    {JsonList(items) : items \in SeqsUpTo({"dict", "str"}, MaxItems)}
        \cup {JsonDict, JsonNull, Text("Not Found")}
NoHeaders == <<>>
RateHeaders ==
    ("X-RateLimit-Remaining" :> "59") @@ ("X-RateLimit-Limit" :> "60")
        @@ ("X-RateLimit-Reset" :> "200000030")
ShortRateHeaders ==
    ("X-RateLimit-Remaining-Short" :> "7") @@ ("X-RateLimit-Limit-Short" :> "10")
        @@ ("X-RateLimit-Reset" :> "")
TransportErrors == {"Connection refused", "Read timed out."}

Outcomes ==
    {TransportError(m) : m \in TransportErrors}
        \cup {Response(st, b, NoHeaders) : st \in Statuses, b \in Bodies}
        \cup {Response(st, JsonDict, h) : st \in Statuses, h \in {RateHeaders, ShortRateHeaders}}

Clock == [sec |-> 200000000, micro |-> 250000, tz |-> 0]

----------------------------------------------------------------------------
(* One invocation of main() *)

Init ==
    /\ pc = "routing"
    /\ cmd \in CommandTable \cup UnknownCommands
    /\ args \in ArgsOf(cmd)
    /\ handler = ""
    /\ requests = <<>>
    /\ replies = <<>>
    /\ results = <<>>
    /\ ts = PyNone
    /\ now = Clock
    /\ out = None

Next ==
    \/ NotImplemented
    \/ Dispatch
    \/ \E o \in Outcomes : Reply(o)

Spec == Init /\ [][Next]_vars

----------------------------------------------------------------------------
(* _fmt_ts_relative applied on its own *)

MaxCount == 2

\* Seconds of the units of the relative rendering, largest first.
UnitTable ==
    <<[name |-> "year", secs |-> 365 * 86400], [name |-> "month", secs |-> 30 * 86400],
      [name |-> "day", secs |-> 86400], [name |-> "hour", secs |-> 3600],
      [name |-> "minute", secs |-> 60], [name |-> "second", secs |-> 1]>>

BaseSec == 200000000

\* Ages at and around the first MaxCount multiples of every unit, the age
\* zero and ages of timestamps in the future.
Ages ==
    {k * UnitTable[u].secs + e : u \in 1..Len(UnitTable), k \in 1..MaxCount, e \in {-1, 0, 1}}
        \cup {0, -1, -2, -86400}

Clocks == {[sec |-> BaseSec, micro |-> m, tz |-> z] : m \in {0, 500000}, z \in {0, 3600, -18000}}

TsInputs ==
    {PyNone, PyStr(""), PyStr(" "), PyStr("abc"), PyStr("12a"), PyStr("1.5"),
     PyStr(" 199999940\n"), PyStr("+199999940"), PyStr("0086400"),
     PyStr("9999999999999"), PyStr("-9999999999999"),
     PyFloat(1500), PyFloat(-500), PyFloat(86400000)}
        \cup {PyStr(DecStr(BaseSec - d)) : d \in Ages}
        \cup {PyInt(BaseSec - d) : d \in Ages}

FmtInit ==
    /\ pc = "fmt"
    /\ cmd = ""
    /\ args = <<>>
    /\ handler = ""
    /\ requests = <<>>
    /\ replies = <<>>
    /\ results = <<>>
    /\ ts \in TsInputs
    /\ now \in Clocks
    /\ out = None

Format ==
    /\ pc = "fmt"
    /\ out' = _fmt_ts_relative(ts, now)
    /\ pc' = "fmt_done"
    /\ UNCHANGED <<cmd, args, handler, requests, replies, results, ts, now>>

FmtNext == Format

SpecFmt == FmtInit /\ [][FmtNext]_vars

----------------------------------------------------------------------------
(* Properties *)

IsNote(e) == e.Type = ENTRY_TYPE_NOTE
IsError(e) == e.Type = ENTRY_TYPE_ERROR

\* The remote call failed: the transport raised or the status is >= 400.
RemoteFailed(o) == o.k = "exc" \/ o.status >= 400

\* Argument values float() accepts, among those the invocations carry.
NumericLiterals == {"0", "0.5", "1.5", "2"}
Convertible(a, f) == Get(a, f) \in NumericLiterals
Given(a, f) == f \in DOMAIN a /\ a[f] # ""

\* C1: one invocation of main emits exactly one result to the host, for
\* every command name, argument mapping and remote outcome: never more than
\* one, and exactly one once main() has returned.
C1_ExactlyOneResult ==
    /\ Len(results) <= 1
    /\ pc = "terminal" => Len(results) = 1
    /\ pc \in {"routing", "waiting"} => Len(results) = 0

\* A handler raised after the remote call failed, and main() turned that
\* into the single result.
C1_Witness ==
    /\ pc = "terminal"
    /\ cmd = "lifx-list-scenes"
    /\ Len(replies) = 1 /\ replies[1].k = "exc"
    /\ Len(results) = 1 /\ IsError(results[1])

\* C2: for every command other than lifx-test-connection and
\* lifx-health-check, lifx-activate-scene included, a reply with an HTTP
\* status >= 400 ends the invocation with an error entry that names the
\* command, and no note.
C2_Http4xxIsError ==
    (/\ pc = "terminal"
     /\ cmd \in CommandTable \ {"lifx-test-connection", "lifx-health-check"}
     /\ Len(replies) = 1 /\ replies[1].k = "resp" /\ replies[1].status >= 400)
    => /\ Len(results) = 1
       /\ IsError(results[1])
       /\ Contains(results[1].HumanReadable, "'" \o cmd \o "'")

\* C3: lifx-test-connection always ends with a note; when the light-list
\* call failed (transport or status >= 400) its diagnostic record has Status
\* "failed", LightsReturned 0 and a non-empty Error, and when the call
\* succeeded Status "success" and an empty Error.
C3_TestConnectionNeverFails ==
    (pc = "terminal" /\ cmd = "lifx-test-connection")
    => /\ Len(results) = 1 /\ IsNote(results[1])
       /\ Len(replies) = 1
       /\ LET info == results[1].Contents.Info
          IN  IF RemoteFailed(replies[1])
              THEN info.Status = "failed" /\ info.LightsReturned = 0 /\ info.Error # ""
              ELSE info.Status = "success" /\ info.Error = ""

C3_Witness ==
    /\ pc = "terminal" /\ cmd = "lifx-test-connection"
    /\ replies[1].k = "resp" /\ replies[1].status = 503
    /\ IsNote(results[1])
    /\ results[1].Contents.Info.Status = "failed"

\* C4: lifx-health-check reports every remote failure as data: whether the
\* reply has a status >= 400 or the transport raised, the invocation ends
\* with a note, never with an error entry.
C4_HealthCheckNeverFails ==
    (pc = "terminal" /\ cmd = "lifx-health-check")
    => Len(results) = 1 /\ IsNote(results[1])

\* C5: lifx-breathe-effect and lifx-pulse-effect without a non-empty color,
\* and lifx-activate-scene without a non-empty scene_uuid, end with an error
\* entry and issue no request, whatever the other arguments are.
MissingRequired ==
    \/ cmd \in {"lifx-breathe-effect", "lifx-pulse-effect"} /\ ~Given(args, "color")
    \/ cmd = "lifx-activate-scene" /\ ~Given(args, "scene_uuid")

C5_RequiredFieldsShortCircuit ==
    (MissingRequired /\ pc # "routing")
    => /\ pc = "terminal"
       /\ requests = <<>>
       /\ Len(results) = 1 /\ IsError(results[1])

\* The color is missing while another argument is one float() rejects.
C5_Witness ==
    /\ pc = "terminal" /\ cmd = "lifx-breathe-effect"
    /\ Get(args, "color") = "" /\ Get(args, "period") = "abc"
    /\ requests = <<>> /\ IsError(results[1])

\* C6: lifx-set-state with none of power, color, brightness, duration and
\* infrared present, and fast absent or not a recognized boolean word, ends
\* with an error entry and issues no request.
BoolWords == {"true", "yes", "y", "1", "false", "no", "n", "0"}
NoStateFields ==
    /\ cmd = "lifx-set-state"
    /\ DOMAIN args \cap {"power", "color", "brightness", "duration", "infrared"} = {}
    /\ "fast" \in DOMAIN args => \A w \in BoolWords : Strip(Lower(args["fast"])) # w

C6_SetStateNeedsAField ==
    (NoStateFields /\ pc # "routing")
    => /\ pc = "terminal"
       /\ requests = <<>>
       /\ Len(results) = 1 /\ IsError(results[1])

\* Only a selector, an unrecognized key and an unrecognized fast are given.
C6_Witness ==
    /\ pc = "terminal" /\ cmd = "lifx-set-state"
    /\ DOMAIN args = {"selector", "bogus", "fast"} /\ args["fast"] = "maybe"
    /\ requests = <<>> /\ IsError(results[1])

\* C7: lifx-alert-flash, when cycles and period are numeric where given,
\* issues one pulse request whose color is the given color, else the
\* severity default (low green, medium yellow, high orange, critical red,
\* unspecified or unrecognized red), whose cycles is the given cycles, else
\* the severity default (3, 5, 7, 10, and 5 when unspecified), each resolved
\* without regard to the other, and whose power_on is true and persist false
\* unless set to a boolean word.
SeverityClass(v) ==
    CASE v = "critical" -> "critical"
      [] v = " LOW" -> "low"
      [] v = "2" -> "medium"
      [] v = "High" -> "high"
      [] OTHER -> "unspecified"

DefaultColor(class) ==
    CASE class = "low" -> "green" [] class = "medium" -> "yellow"
      [] class = "high" -> "orange" [] OTHER -> "red"

DefaultCycles(class) ==
    CASE class = "low" -> 3 [] class = "medium" -> 5 [] class = "high" -> 7
      [] class = "critical" -> 10 [] OTHER -> 5

\* Thousandths of a numeric literal.
LiteralValue(v) ==
    CASE v = "0" -> 0 [] v = "0.5" -> 500 [] v = "1.5" -> 1500 [] v = "2" -> 2000

SetTrue(a, f) == f \in DOMAIN a /\ Strip(Lower(a[f])) \in {"true", "yes", "y", "1"}
SetFalse(a, f) == f \in DOMAIN a /\ Strip(Lower(a[f])) \in {"false", "no", "n", "0"}

AllConvertible(a, fields) == \A f \in fields : Given(a, f) => Convertible(a, f)

PassesValidation ==
    CASE cmd = "lifx-set-state" ->
            /\ \A f \in {"brightness", "duration", "infrared"} :
                    f \in DOMAIN args => Convertible(args, f)
            /\ \/ Given(args, "power") \/ Given(args, "color")
               \/ DOMAIN args \cap {"brightness", "duration", "infrared"} # {}
               \/ SetTrue(args, "fast") \/ SetFalse(args, "fast")
      [] cmd = "lifx-toggle-power" -> AllConvertible(args, {"duration"})
      [] cmd = "lifx-breathe-effect" ->
            Given(args, "color") /\ AllConvertible(args, {"period", "cycles", "peak"})
      [] cmd = "lifx-pulse-effect" ->
            Given(args, "color") /\ AllConvertible(args, {"period", "cycles"})
      [] cmd = "lifx-activate-scene" ->
            Given(args, "scene_uuid") /\ AllConvertible(args, {"duration"})
      [] cmd = "lifx-alert-flash" -> AllConvertible(args, {"cycles", "period"})
      [] OTHER -> cmd \in CommandTable

C8_SingleRequest ==
    /\ Len(requests) <= 1
    /\ (pc # "routing" /\ PassesValidation) => Len(requests) = 1

\* A raw-response caller finished after its one request.
C8_Witness ==
    /\ pc = "terminal" /\ cmd = "lifx-activate-scene"
    /\ Len(requests) = 1 /\ requests[1].raw_response
    /\ Len(replies) = 1

\* C9: a command name outside the dispatcher's table takes the invocation
\* from routing straight to terminal with an error entry naming the command;
\* no handler runs and no request is issued.
C9_UnknownCommand ==
    cmd \notin CommandTable
    => /\ pc \in {"routing", "terminal"}
       /\ handler = ""
       /\ requests = <<>>
       /\ pc = "terminal"
            => /\ Len(results) = 1 /\ IsError(results[1])
               /\ Contains(results[1].HumanReadable, "'" \o cmd \o "'")

\* A name that differs from a table entry only in case.
C9_Witness ==
    /\ cmd = "LIFX-LIST-LIGHTS" /\ pc = "terminal"
    /\ handler = "" /\ IsError(results[1])

\* The rendering the unit rule asks for at age d >= 0: the largest unit of
\* UnitTable whose whole count is at least 1 (seconds when there is none, at
\* d = 0), that count, and the plural "s" exactly when the count is not 1.
UnitIndex(d) ==
    IF \E i \in 1..Len(UnitTable) : d \div UnitTable[i].secs >= 1
    THEN CHOOSE i \in 1..Len(UnitTable) :
            /\ d \div UnitTable[i].secs >= 1
            /\ \A j \in 1..(i - 1) : d \div UnitTable[j].secs < 1
    ELSE Len(UnitTable)

ExpectedRel(d) ==
    LET u == UnitTable[UnitIndex(d)]
        n == d \div u.secs
    IN  DecStr(n) \o " " \o u.name \o (IF n = 1 THEN "" ELSE "s") \o " ago"

Absent(tsv) == tsv.t = "NoneType" \/ (tsv.t = "str" /\ tsv.s = "")

\* The input is an integer: an int, or a str holding a decimal integer
\* literal; and datetime can represent it.
IntegerEpoch(tsv) ==
    /\ \/ tsv.t = "int"
       \/ tsv.t = "str" /\ IntOfStr(tsv.s).ok
    /\ FromTimestampOK(IntOf(tsv).neg, IntOf(tsv).digits)

\* A real number without fraction part.
WholeFloat(tsv) == tsv.t = "float" /\ tsv.m % 1000 = 0

ExpectedFormatted(tsv, clock) ==
    LET e == IntValue(IntOf(tsv))
        d == DeltaSeconds(e, clock)
    IN  IF d < 0 THEN AbsStr(e, clock.tz)
        ELSE AbsStr(e, clock.tz) \o " (" \o ExpectedRel(d) \o ")"

\* The input has an age: int() and datetime accept it.
HasAge == IntOf(ts).ok /\ FromTimestampOK(IntOf(ts).neg, IntOf(ts).digits)
Age == DeltaSeconds(IntValue(IntOf(ts)), now)
AgeIs(d) == HasAge /\ Age = d

\* C10 as stated: an integer epoch value of age d >= 0 is rendered with the
\* largest unit whose whole count is >= 1 and that count (86400 is "1 day
\* ago", 30 * 86400 is "1 month ago"), plural exactly when the count is not
\* 1; d < 0 gives the absolute timestamp only; absent or empty input gives
\* "-"; any non-integer input gives the raw value; it never raises.
C10_Original ==
    pc = "fmt_done"
    => out = IF Absent(ts) THEN "-"
             ELSE IF IntegerEpoch(ts) \/ WholeFloat(ts) THEN ExpectedFormatted(ts, now)
             ELSE StrOf(ts)

\* C10 amended: as stated, except that a real number is no raw-value case:
\* int() truncates it toward zero and it is rendered as that integer epoch.
\* The raw value is returned for what int() rejects (a str that is no
\* decimal integer literal) and for an integer datetime cannot represent.
C10_FmtTsRelative ==
    pc = "fmt_done"
    => /\ out = IF Absent(ts) THEN "-"
                ELSE IF IntegerEpoch(ts) \/ ts.t = "float" THEN ExpectedFormatted(ts, now)
                ELSE StrOf(ts)
       /\ AgeIs(86400) => Contains(out, " (1 day ago)")
       /\ AgeIs(30 * 86400) => Contains(out, " (1 month ago)")
       /\ (HasAge /\ Age < 0) => ~Contains(out, "ago")

\* A str epoch exactly thirty days old was rendered.
C10_Witness ==
    /\ pc = "fmt_done"
    /\ ts = PyStr(DecStr(BaseSec - 30 * 86400))
    /\ Contains(out, " (1 month ago)")

\* C11: an error entry never hides a successful mutation.  For
\* lifx-set-state, lifx-toggle-power, lifx-breathe-effect, lifx-pulse-effect,
\* lifx-alert-flash and lifx-activate-scene an invocation ends with an error
\* entry only if no request was issued or the request failed (the transport
\* raised, or the client raised on a status >= 400); when the request was
\* issued and the client returned normally it ends with a note.
MutatingCommands ==
    {"lifx-set-state", "lifx-toggle-power", "lifx-breathe-effect", "lifx-pulse-effect",
     "lifx-alert-flash", "lifx-activate-scene"}

\* The client raised on the reply: the transport failed, or the status is
\* >= 400 and the command is not the one that asks for the raw response.
ClientRaised(o) ==
    o.k = "exc" \/ (o.status >= 400 /\ cmd # "lifx-activate-scene")

C11_ErrorNeverHidesMutation ==
    (cmd \in MutatingCommands /\ pc = "terminal")
    => /\ Len(results) = 1
       /\ IsError(results[1])
            => requests = <<>> \/ (Len(replies) = 1 /\ ClientRaised(replies[1]))
       /\ (Len(requests) = 1 /\ Len(replies) = 1 /\ ~ClientRaised(replies[1]))
            => IsNote(results[1])

\* A state change was accepted with a body that is not JSON.
C11_Witness ==
    /\ cmd = "lifx-set-state" /\ pc = "terminal"
    /\ Len(requests) = 1 /\ Len(replies) = 1
    /\ replies[1].k = "resp" /\ replies[1].status = 200 /\ replies[1].body.shape = "text"
    /\ IsNote(results[1])

====
